---------------------------- MODULE Spec2Model ----------------------------
(***************************************************************************)
(* A model of repo_to_pdf.py: the Selector (should_include_file,           *)
(* get_all_files), the Reader (read_file_safely), escape_xml and the       *)
(* Renderer loop of main, run against a small file system.                 *)
(*                                                                         *)
(* Text is a sequence of code points, a file's data a sequence of bytes,   *)
(* a path the sequence of its parts (pathlib's Path.parts).                *)
(***************************************************************************)
EXTENDS Integers, Sequences, FiniteSets, TLC

VARIABLES
    fs,         \* the entries under REPO_ROOT, in the order rglob yields them
    pc,         \* main's position
    run,        \* which invocation of the tool this is
    files,      \* main: files
    story,      \* main: story
    idx,        \* main: i of the file-contents loop
    encIdx,     \* read_file_safely: position in encodings (past the end: the 'rb' fallback)
    handles,    \* the open file handles, oldest first
    pending,    \* the exception in flight while a with-block unwinds ("" if none)
    content,    \* main: content, as returned by read_file_safely
    attempts,   \* history: the encodings tried for the current file, in order
    reads,      \* history: what read_file_safely returned, per file read in this run
    written,    \* history: how often this run wrote the output document
    failure,    \* the exception that ended the run ("" if none)
    deletes,    \* how many files the environment has deleted
    docs        \* history: per completed run, the file list and the document built

vars == <<fs, pc, run, files, story, idx, encIdx, handles, pending, content,
          attempts, reads, written, failure, deletes, docs>>

---------------------------------------------------------------------------
(* Bounds of the model *)

MaxFiles == 2

MaxTreeFiles == 2

MaxLen == 3

MaxRuns == 2

MaxDeletes == 1

---------------------------------------------------------------------------
(* Text: str as a sequence of code points *)

\* printable ASCII without the double quote (34), the backslash (92) and the
\* backquote (96)
AsciiLow == "#$%&'()*+,-./0123456789:;<=>?@ABCDEFGHIJKLMNOPQRSTUVWXYZ["

AsciiMid == "]^_"

AsciiHigh == "abcdefghijklmnopqrstuvwxyz{|}~"

\* ord(c) of a one-character string
Ord(c) ==
    IF c = " " THEN 32
    ELSE IF c = "!" THEN 33
    ELSE IF \E k \in 1..Len(AsciiLow) : SubSeq(AsciiLow, k, k) = c
         THEN 34 + (CHOOSE k \in 1..Len(AsciiLow) : SubSeq(AsciiLow, k, k) = c)
    ELSE IF \E k \in 1..Len(AsciiMid) : SubSeq(AsciiMid, k, k) = c
         THEN 92 + (CHOOSE k \in 1..Len(AsciiMid) : SubSeq(AsciiMid, k, k) = c)
    ELSE 96 + (CHOOSE k \in 1..Len(AsciiHigh) : SubSeq(AsciiHigh, k, k) = c)

\* a string literal as text
Str(s) == [k \in 1..Len(s) |-> Ord(SubSeq(s, k, k))]

TAB == 9

LF == 10

CR == 13

AMP == 38

LESS == 60

GREATER == 62

REPLACEMENT == 65533

\* str.lower() of one code point (ASCII and Latin-1 letters)
LowerChar(c) ==
    IF (c >= 65 /\ c <= 90) \/ (c >= 192 /\ c <= 222 /\ c # 215) THEN c + 32 ELSE c

\* str.lower()
Lower(t) == [k \in 1..Len(t) |-> LowerChar(t[k])]

\* a < b for str: lexicographic by code point, a proper prefix first
StrLess(a, b) ==
    \E k \in 1..(Len(b)) :
        /\ k <= Len(a) + 1
        /\ \A j \in 1..(k - 1) : a[j] = b[j]
        /\ (k = Len(a) + 1 \/ a[k] < b[k])

\* whether pat occurs in t at position k
MatchAt(t, pat, k) ==
    /\ k + Len(pat) - 1 <= Len(t)
    /\ \A j \in 1..Len(pat) : t[k + j - 1] = pat[j]

RECURSIVE ReplaceFrom(_, _, _, _)
ReplaceFrom(t, old, new, k) ==
    IF k > Len(t) THEN <<>>
    ELSE IF MatchAt(t, old, k) THEN new \o ReplaceFrom(t, old, new, k + Len(old))
    ELSE <<t[k]>> \o ReplaceFrom(t, old, new, k + 1)

\* str.replace(old, new) for a non-empty old: left to right, non-overlapping
Replace(t, old, new) == ReplaceFrom(t, old, new, 1)

RECURSIVE Digits(_)
Digits(n) == IF n < 10 THEN <<48 + n>> ELSE Digits(n \div 10) \o <<48 + (n % 10)>>

\* str(n) of an int n >= 0, as an f-string formats it
IntStr(n) == Digits(n)

RECURSIVE Join(_, _)
\* sep.join(parts)
Join(parts, sep) ==
    IF parts = <<>> THEN <<>>
    ELSE IF Len(parts) = 1 THEN parts[1]
    ELSE parts[1] \o sep \o Join(Tail(parts), sep)

\* the string literals of the program
SelfName == Str("repo_to_pdf.py")

PdfSuffix == Str(".pdf")

PackageLockName == Str("package-lock.json")

AmpEntity == Str("&amp;")

LtEntity == Str("&lt;")

GtEntity == Str("&gt;")

TitleText == Str("CodeUpgradeEngine")

SubtitleText == Str("Complete Repository Source Code")

TotalFilesText == Str("Total Files: ")

TocHeading == Str("Table of Contents")

TocSeparator == Str(". ")

HeaderPrefix == Str("File: ")

FourSpaces == Str("    ")

---------------------------------------------------------------------------
(* Paths: pathlib.Path as the sequence of its parts *)

\* the parts of a path written as a tuple of string literals
P(lits) == [k \in 1..Len(lits) |-> Str(lits[k])]

REPO_ROOT == P(<<"/", "home", "user", "CodeUpgradeEngine">>)

EXCLUDE_DIRS ==
    { Str(d) : d \in {"node_modules", ".git", "dist", "build", "__pycache__",
                      ".next", ".cache", "coverage", ".nyc_output", "venv", ".venv"} }

INCLUDE_EXTENSIONS ==
    { Str(e) : e \in {".py", ".js", ".ts", ".tsx", ".jsx", ".json", ".md", ".txt",
                      ".html", ".css", ".scss", ".yaml", ".yml", ".sh", ".sql",
                      ".xml", ".toml", ".cfg", ".ini", ".go", ".rs", ".java",
                      ".c", ".cpp", ".h", ".hpp", ".env", ".gitignore", ".lock",
                      ".cs", ".xaml", ".csproj", ".addin", ".sln", ".resx"} }

INCLUDE_FILES ==
    { Str(f) : f \in {"Dockerfile", "Makefile", "Procfile", ".env", ".env.example",
                      ".gitignore", ".dockerignore", ".prettierrc", ".eslintrc",
                      ".replit"} }

\* Path.name
Name(path) == path[Len(path)]

\* Path.suffix: from the last dot of the name, unless that dot starts or ends it
Suffix(path) ==
    LET name == Name(path)
        dots == { k \in 1..Len(name) : name[k] = 46 }
    IN  IF dots = {} THEN <<>>
        ELSE LET last == CHOOSE k \in dots : \A j \in dots : j <= k
             IN  IF 1 < last /\ last < Len(name)
                 THEN SubSeq(name, last, Len(name))
                 ELSE <<>>

\* str(path) of an absolute path
PathStr(path) == <<47>> \o Join(Tail(path), <<47>>)

\* str(path.relative_to(REPO_ROOT))
RelStr(path) == Join(SubSeq(path, Len(REPO_ROOT) + 1, Len(path)), <<47>>)

RECURSIVE AnyPartExcluded(_, _)
\* the for loop of should_include_file, from part k on
AnyPartExcluded(path, k) ==
    IF k > Len(path) THEN FALSE
    ELSE IF path[k] \in EXCLUDE_DIRS THEN TRUE
    ELSE AnyPartExcluded(path, k + 1)

\* should_include_file comparing the suffix as it is written
should_include_file_CaseSensitive(filepath) ==
    IF AnyPartExcluded(filepath, 1) THEN FALSE
    ELSE IF Name(filepath) \in INCLUDE_FILES THEN TRUE
    ELSE Suffix(filepath) \in INCLUDE_EXTENSIONS

should_include_file(filepath) ==
    IF AnyPartExcluded(filepath, 1) THEN FALSE
    ELSE IF Name(filepath) \in INCLUDE_FILES THEN TRUE
    ELSE Lower(Suffix(filepath)) \in INCLUDE_EXTENSIONS

\* root.rglob('*'): every entry under root, in the order the file system lists them
RGlob(root, fsys) == [k \in 1..Len(fsys) |-> root \o fsys[k].rel]

\* Path.is_file()
IsFile(path, fsys) ==
    \E k \in 1..Len(fsys) : REPO_ROOT \o fsys[k].rel = path /\ fsys[k].kind = "file"

\* a sort key that keeps the letter case
SortKey_Raw(path) == PathStr(path)

\* the key of files.sort
SortKey(path) == Lower(PathStr(path))

RECURSIVE InsertSorted(_, _)
\* x put into the sorted list after every element whose key is not greater
InsertSorted(sorted, x) ==
    IF sorted = <<>> THEN <<x>>
    ELSE IF StrLess(SortKey(x), SortKey(sorted[1])) THEN <<x>> \o sorted
    ELSE <<sorted[1]>> \o InsertSorted(Tail(sorted), x)

RECURSIVE SortFiles(_, _)
\* list.sort(key=...): a stable sort, elements k.. of list put into acc
SortFiles(list, acc) ==
    IF list = <<>> THEN acc
    ELSE SortFiles(Tail(list), InsertSorted(acc, list[1]))

\* the two continue statements of get_all_files
SelfExcluded(filepath) ==
    \/ Name(filepath) = SelfName
    \/ Suffix(filepath) = PdfSuffix
    \/ Name(filepath) = PackageLockName

RECURSIVE CollectFrom(_, _, _)
\* the for loop of get_all_files over what rglob yields, from element k on
CollectFrom(listing, fsys, k) ==
    IF k > Len(listing) THEN <<>>
    ELSE IF IsFile(listing[k], fsys) /\ should_include_file(listing[k])
            /\ ~SelfExcluded(listing[k])
         THEN <<listing[k]>> \o CollectFrom(listing, fsys, k + 1)
    ELSE CollectFrom(listing, fsys, k + 1)

\* get_all_files keeping every regular file
get_all_files_NoFilter(root, fsys) ==
    SortFiles(SelectSeq(RGlob(root, fsys), LAMBDA q : IsFile(q, fsys)), <<>>)

get_all_files(root, fsys) == SortFiles(CollectFrom(RGlob(root, fsys), fsys, 1), <<>>)

---------------------------------------------------------------------------
(* The Reader's codecs: bytes to text *)

IsCont(b) == b >= 128 /\ b <= 191

\* how many bytes a UTF-8 sequence starting with b has (0: b cannot start one)
Utf8Width(b) ==
    IF b < 128 THEN 1
    ELSE IF b >= 194 /\ b <= 223 THEN 2
    ELSE IF b >= 224 /\ b <= 239 THEN 3
    ELSE IF b >= 240 /\ b <= 244 THEN 4
    ELSE 0

\* whether b may be the second byte after lead (no overlong forms, no
\* surrogates, nothing above U+10FFFF)
Utf8SecondOk(lead, b) ==
    IF lead = 224 THEN b >= 160 /\ b <= 191
    ELSE IF lead = 237 THEN b >= 128 /\ b <= 159
    ELSE IF lead = 240 THEN b >= 144 /\ b <= 191
    ELSE IF lead = 244 THEN b >= 128 /\ b <= 143
    ELSE IsCont(b)

RECURSIVE Utf8Good(_, _, _)
\* the number of well-formed bytes of the sequence at k, counted from its byte j
Utf8Good(bytes, k, j) ==
    IF j > Utf8Width(bytes[k]) \/ k + j - 1 > Len(bytes) THEN 0
    ELSE IF j = 1 THEN 1 + Utf8Good(bytes, k, 2)
    ELSE IF j = 2 /\ ~Utf8SecondOk(bytes[k], bytes[k + 1]) THEN 0
    ELSE IF j > 2 /\ ~IsCont(bytes[k + j - 1]) THEN 0
    ELSE 1 + Utf8Good(bytes, k, j + 1)

\* the code point of the well-formed sequence at k
Utf8CodePoint(bytes, k) ==
    LET w == Utf8Width(bytes[k])
    IN  IF w = 1 THEN bytes[k]
        ELSE IF w = 2 THEN (bytes[k] - 192) * 64 + (bytes[k + 1] - 128)
        ELSE IF w = 3 THEN (bytes[k] - 224) * 4096 + (bytes[k + 1] - 128) * 64
                           + (bytes[k + 2] - 128)
        ELSE (bytes[k] - 240) * 262144 + (bytes[k + 1] - 128) * 4096
             + (bytes[k + 2] - 128) * 64 + (bytes[k + 3] - 128)

RECURSIVE Utf8From(_, _, _)
\* bytes.decode('utf-8', errors) from byte k on: strict fails at the first
\* ill-formed sequence, replace puts U+FFFD for it and goes on
Utf8From(bytes, k, errors) ==
    IF k > Len(bytes) THEN [ok |-> TRUE, text |-> <<>>]
    ELSE LET w == Utf8Width(bytes[k])
             good == Utf8Good(bytes, k, 1)
         IN  IF w > 0 /\ good = w
             THEN LET rest == Utf8From(bytes, k + w, errors)
                  IN  [ok |-> rest.ok, text |-> <<Utf8CodePoint(bytes, k)>> \o rest.text]
             ELSE IF errors = "strict" THEN [ok |-> FALSE, text |-> <<>>]
             ELSE LET rest == Utf8From(bytes, k + (IF good = 0 THEN 1 ELSE good), errors)
                  IN  [ok |-> rest.ok, text |-> <<REPLACEMENT>> \o rest.text]

\* cp1252's code points for the bytes 0x80..0x9F (0: the byte is undefined)
Cp1252High ==
    << 8364, 0, 8218, 402, 8222, 8230, 8224, 8225, 710, 8240, 352, 8249, 338, 0, 381, 0,
       0, 8216, 8217, 8220, 8221, 8226, 8211, 8212, 732, 8482, 353, 8250, 339, 0, 382, 376 >>

Cp1252Char(b) == IF b >= 128 /\ b <= 159 THEN Cp1252High[b - 127] ELSE b

\* bytes.decode(encoding), strict
Decode(encoding, bytes) ==
    IF encoding = "utf-8" THEN Utf8From(bytes, 1, "strict")
    ELSE IF encoding = "latin-1" THEN [ok |-> TRUE, text |-> bytes]
    ELSE IF \E k \in 1..Len(bytes) : Cp1252Char(bytes[k]) = 0
         THEN [ok |-> FALSE, text |-> <<>>]
    ELSE [ok |-> TRUE, text |-> [k \in 1..Len(bytes) |-> Cp1252Char(bytes[k])]]

\* text mode's universal newlines: \r\n and \r are read as \n
TranslateNewlines(text) == Replace(Replace(text, <<CR, LF>>, <<LF>>), <<CR>>, <<LF>>)

\* open(filepath, 'r', encoding=encoding).read() on a file holding bytes
TextRead(encoding, bytes) ==
    LET d == Decode(encoding, bytes)
    IN  [ok |-> d.ok, text |-> IF d.ok THEN TranslateNewlines(d.text) ELSE <<>>]

\* open(filepath, 'rb').read().decode('utf-8', errors='replace')
LossyRead(bytes) == Utf8From(bytes, 1, "replace")

\* the encodings with cp1252 ahead of latin-1
encodings_Cp1252First == <<"utf-8", "cp1252", "latin-1">>

encodings == <<"utf-8", "latin-1", "cp1252">>

\* an except clause for the wrong exception
Caught_EncodeOnly(exc) == exc \in {"UnicodeEncodeError"}

\* the except clause of read_file_safely
Caught(exc) == exc \in {"UnicodeDecodeError", "UnicodeError"}

\* a handle closed on the normal path only
WithExit_LeakOnError(hs, exc) == IF exc = "" THEN SubSeq(hs, 1, Len(hs) - 1) ELSE hs

\* the handles left open when a with-block is left, normally or by exception exc
WithExit(hs, exc) == SubSeq(hs, 1, Len(hs) - 1)

\* escape_xml replacing the ampersand last
escape_xml_AmpLast(text) ==
    LET t1 == Replace(text, <<LESS>>, LtEntity)
        t2 == Replace(t1, <<GREATER>>, GtEntity)
    IN  Replace(t2, <<AMP>>, AmpEntity)

escape_xml(text) ==
    LET t1 == Replace(text, <<AMP>>, AmpEntity)
        t2 == Replace(t1, <<LESS>>, LtEntity)
    IN  Replace(t2, <<GREATER>>, GtEntity)

---------------------------------------------------------------------------
(* The document: reportlab flowables *)

Flowable(kind, style, text) == [kind |-> kind, style |-> style, text |-> text]

Spacer == Flowable("Spacer", "", <<>>)

PageBreak == Flowable("PageBreak", "", <<>>)

Paragraph(text, style) == Flowable("Paragraph", style, text)

Preformatted(text, style) == Flowable("Preformatted", style, text)

\* main, the title page
TitlePage(fileList) ==
    << Spacer,
       Paragraph(TitleText, "CustomTitle"),
       Paragraph(SubtitleText, "CustomSubtitle"),
       Paragraph(TotalFilesText \o IntStr(Len(fileList)), "CustomSubtitle"),
       PageBreak >>

\* a table-of-contents entry numbered from 0
TocEntry_ZeroBased(i, filepath) ==
    Paragraph(escape_xml(IntStr(i - 1) \o TocSeparator \o RelStr(filepath)), "TOC")

\* main, one entry of the table of contents (i counts from 1)
TocEntry(i, filepath) ==
    Paragraph(escape_xml(IntStr(i) \o TocSeparator \o RelStr(filepath)), "TOC")

\* main, the table of contents
TableOfContents(fileList) ==
    << Paragraph(TocHeading, "Heading1"), Spacer >>
    \o [k \in 1..Len(fileList) |-> TocEntry(k, fileList[k])]
    \o << PageBreak >>

\* a header put into the story unescaped
FileHeaderPara_Raw(filepath) == Paragraph(HeaderPrefix \o RelStr(filepath), "FileHeader")

\* main, the header of a file's section
FileHeaderPara(filepath) ==
    Paragraph(escape_xml(HeaderPrefix \o RelStr(filepath)), "FileHeader")

\* main, the body of a file's section from what the Reader returned
FileBody(text) ==
    Preformatted(Replace(escape_xml(text), <<TAB>>, FourSpaces), "Code")

\* the output document's place under the root
OutputRel == P(<<"CodeUpgradeEngine_Repository.pdf">>)

\* what the file system holds for the written document
PdfData == Str("%PDF")

---------------------------------------------------------------------------
(* The run *)

\* the tool's process is alive: it has neither finished nor been ended by an exception
InRun == pc \in {"start", "front", "header", "open", "read", "close", "append"}

\* files = get_all_files(REPO_ROOT)
Collect ==
    /\ pc = "start"
    /\ files' = get_all_files(REPO_ROOT, fs)
    /\ pc' = "front"
    /\ UNCHANGED <<fs, run, story, idx, encIdx, handles, pending, content,
                   attempts, reads, written, failure, deletes, docs>>

\* the title page and the table of contents
FrontMatter ==
    /\ pc = "front"
    /\ story' = TitlePage(files) \o TableOfContents(files)
    /\ idx' = 1
    /\ pc' = "header"
    /\ UNCHANGED <<fs, run, files, encIdx, handles, pending, content,
                   attempts, reads, written, failure, deletes, docs>>

\* the file loop's next round: the header, then the call of read_file_safely
FileHeader ==
    /\ pc = "header"
    /\ idx <= Len(files)
    /\ story' = Append(story, FileHeaderPara(files[idx]))
    /\ encIdx' = 1
    /\ attempts' = <<>>
    /\ pc' = "open"
    /\ UNCHANGED <<fs, run, files, idx, handles, pending, content,
                   reads, written, failure, deletes, docs>>

\* an open that reads a missing file as an empty one
OpenFile_SkipMissing ==
    /\ pc = "open"
    /\ LET path == files[idx]
       IN  IF IsFile(path, fs)
           THEN LET e == CHOOSE k \in 1..Len(fs) : REPO_ROOT \o fs[k].rel = path
                IN  /\ handles' = Append(handles, [path |-> path, data |-> fs[e].data])
                    /\ attempts' = Append(attempts,
                                          IF encIdx <= Len(encodings)
                                          THEN encodings[encIdx] ELSE "replace")
                    /\ pc' = "read"
                    /\ UNCHANGED <<content, story, idx>>
           ELSE /\ content' = <<>>
                /\ story' = Append(story, PageBreak)
                /\ idx' = idx + 1
                /\ pc' = "header"
                /\ UNCHANGED <<handles, attempts>>
    /\ UNCHANGED <<fs, run, files, encIdx, pending, failure,
                   reads, written, deletes, docs>>

\* open(filepath, ...): in the loop for encodings[encIdx], after it for 'rb'
OpenFile ==
    /\ pc = "open"
    /\ LET path == files[idx]
           inLoop == encIdx <= Len(encodings)
       IN  IF IsFile(path, fs)
           THEN LET e == CHOOSE k \in 1..Len(fs) : REPO_ROOT \o fs[k].rel = path
                IN  /\ handles' = Append(handles, [path |-> path, data |-> fs[e].data])
                    /\ attempts' = Append(attempts,
                                          IF inLoop THEN encodings[encIdx] ELSE "replace")
                    /\ pc' = "read"
                    /\ UNCHANGED <<encIdx, failure>>
           ELSE IF inLoop /\ Caught("FileNotFoundError")
           THEN /\ encIdx' = encIdx + 1
                /\ UNCHANGED <<handles, attempts, pc, failure>>
           ELSE /\ failure' = "FileNotFoundError"
                /\ pc' = "aborted"
                /\ UNCHANGED <<handles, attempts, encIdx>>
    /\ UNCHANGED <<fs, run, files, story, idx, pending, content,
                   reads, written, deletes, docs>>

\* f.read(), or f.read().decode('utf-8', errors='replace') after the loop
ReadFile ==
    /\ pc = "read"
    /\ LET data == handles[Len(handles)].data
           r == IF encIdx <= Len(encodings)
                THEN TextRead(encodings[encIdx], data)
                ELSE LossyRead(data)
       IN  IF r.ok
           THEN content' = r.text /\ pending' = ""
           ELSE content' = content /\ pending' = "UnicodeDecodeError"
    /\ pc' = "close"
    /\ UNCHANGED <<fs, run, files, story, idx, encIdx, handles,
                   attempts, reads, written, failure, deletes, docs>>

\* the with-block is left: return, continue with the next encoding, or raise
CloseFile ==
    /\ pc = "close"
    /\ handles' = WithExit(handles, pending)
    /\ IF pending = ""
       THEN /\ reads' = Append(reads, [path |-> files[idx], text |-> content,
                                       tried |-> attempts])
            /\ pc' = "append"
            /\ UNCHANGED <<encIdx, pending, failure>>
       ELSE IF encIdx <= Len(encodings) /\ Caught(pending)
       THEN /\ encIdx' = encIdx + 1
            /\ pending' = ""
            /\ pc' = "open"
            /\ UNCHANGED <<reads, failure>>
       ELSE /\ failure' = pending
            /\ pending' = ""
            /\ pc' = "aborted"
            /\ UNCHANGED <<reads, encIdx>>
    /\ UNCHANGED <<fs, run, files, story, idx, content,
                   attempts, written, deletes, docs>>

\* the content is escaped, its tabs replaced, and appended with a page break
AppendContent ==
    /\ pc = "append"
    /\ story' = story \o <<FileBody(content), PageBreak>>
    /\ idx' = idx + 1
    /\ pc' = "header"
    /\ UNCHANGED <<fs, run, files, encIdx, handles, pending, content,
                   attempts, reads, written, failure, deletes, docs>>

\* doc.build(story): the output document is written under the root, a new
\* entry of the root taking any place in its listing
BuildPdf ==
    /\ pc = "header"
    /\ idx > Len(files)
    /\ written' = written + 1
    /\ docs' = Append(docs, [files |-> files, story |-> story])
    /\ LET out == [rel |-> OutputRel, kind |-> "file", data |-> PdfData]
       IN  IF \E k \in 1..Len(fs) : fs[k].rel = OutputRel
           THEN fs' = [k \in 1..Len(fs) |-> IF fs[k].rel = OutputRel THEN out ELSE fs[k]]
           ELSE \E k \in 0..Len(fs) :
                    fs' = SubSeq(fs, 1, k) \o <<out>> \o SubSeq(fs, k + 1, Len(fs))
    /\ pc' = "done"
    /\ UNCHANGED <<run, files, story, idx, encIdx, handles, pending, content,
                   attempts, reads, failure, deletes>>

\* the tool is invoked again
Rerun ==
    /\ pc = "done"
    /\ run < MaxRuns
    /\ run' = run + 1
    /\ pc' = "start"
    /\ files' = <<>>
    /\ story' = <<>>
    /\ idx' = 0
    /\ encIdx' = 0
    /\ content' = <<>>
    /\ attempts' = <<>>
    /\ reads' = <<>>
    /\ written' = 0
    /\ UNCHANGED <<fs, handles, pending, failure, deletes, docs>>

\* the environment deletes a file while the tool runs
DeleteFile(k) ==
    /\ InRun
    /\ deletes < MaxDeletes
    /\ fs[k].kind = "file"
    /\ fs' = SubSeq(fs, 1, k - 1) \o SubSeq(fs, k + 1, Len(fs))
    /\ deletes' = deletes + 1
    /\ UNCHANGED <<pc, run, files, story, idx, encIdx, handles, pending, content,
                   attempts, reads, written, failure, docs>>

---------------------------------------------------------------------------
(* The file systems the runs start from *)

Entry(lits, kind, data) == [rel |-> P(lits), kind |-> kind, data |-> data]

\* the listings of at most n of the entries, no path twice
Listings(entries, n) ==
    { l \in UNION { [1..m -> entries] : m \in 0..n } :
        \A j, k \in 1..Len(l) : j # k => l[j].rel # l[k].rel }

MainPaths == { <<"a&b.md">>, <<"x<y>.txt">>, <<"lib", "B.py">>, <<"node_modules", "x.js">> }

MainData == { Str("x<y"), <<65, TAB, AMP, 108, 116, 59, CR, LF, GREATER>>, <<195>> }

MainEntries == { Entry(p, "file", d) : p \in MainPaths, d \in MainData }

TreeEntries ==
    { Entry(<<"a.py">>, "file", Str("x")),
      Entry(<<"A.PY">>, "file", <<195>>),
      Entry(<<"B.md">>, "file", Str("x<y")),
      Entry(<<"a_c.Json">>, "file", Str("x")),
      Entry(<<"aB", "c.js">>, "file", Str("x")),
      Entry(<<"node_modules", "x.js">>, "file", Str("x")),
      Entry(<<"lib", "dist", "m.ts">>, "file", Str("x")),
      Entry(<<"Dockerfile">>, "file", Str("x")),
      Entry(<<"dockerfile">>, "file", Str("x")),
      Entry(<<".gitignore">>, "file", Str("x")),
      Entry(<<"img.png">>, "file", <<137, 80, 78, 71>>),
      Entry(<<"pkg.py">>, "dir", <<>>),
      Entry(<<"repo_to_pdf.py">>, "file", Str("x")),
      Entry(<<"package-lock.json">>, "file", Str("x")),
      Entry(<<"CodeUpgradeEngine_Repository.pdf">>, "file", PdfData) }

ByteAlphabet == { TAB, CR, AMP, LESS, 65, 129, 169, 195 }

ByteStrings ==
    UNION { [1..m -> ByteAlphabet] : m \in 0..MaxLen }
    \cup { LtEntity, Str("&amp;gt;"), <<226, 130, 172>>, <<239, 191, 189>>,
           <<65, CR, LF, 66>> }

InitFrom(listings) ==
    /\ fs \in listings
    /\ pc = "start"
    /\ run = 1
    /\ files = <<>>
    /\ story = <<>>
    /\ idx = 0
    /\ encIdx = 0
    /\ handles = <<>>
    /\ pending = ""
    /\ content = <<>>
    /\ attempts = <<>>
    /\ reads = <<>>
    /\ written = 0
    /\ failure = ""
    /\ deletes = 0
    /\ docs = <<>>

Init == InitFrom(Listings(MainEntries, MaxFiles))

InitTree == InitFrom(Listings(TreeEntries, MaxTreeFiles))

InitBytes == InitFrom({ <<Entry(<<"a.py">>, "file", d)>> : d \in ByteStrings })

NextTool ==
    \/ Collect
    \/ FrontMatter
    \/ FileHeader
    \/ OpenFile
    \/ ReadFile
    \/ CloseFile
    \/ AppendContent
    \/ BuildPdf
    \/ Rerun

Next ==
    \/ NextTool
    \/ \E k \in 1..Len(fs) : DeleteFile(k)

Spec == Init /\ [][Next]_vars

SpecTree == InitTree /\ [][NextTool]_vars

SpecBytes == InitBytes /\ [][NextTool]_vars

---------------------------------------------------------------------------
(* What the claims speak of *)

Range(seq) == { seq[k] : k \in 1..Len(seq) }

Count(seq, c) == Cardinality({ k \in 1..Len(seq) : seq[k] = c })

\* the output document's path
OutputPath == REPO_ROOT \o OutputRel

\* the bytes the file system holds for a path
DataOf(path) == fs[CHOOSE k \in 1..Len(fs) : REPO_ROOT \o fs[k].rel = path].data

\* where the file system lists a path
ListedAt(path) == CHOOSE k \in 1..Len(fs) : REPO_ROOT \o fs[k].rel = path

\* what a paragraph shows for its markup: the three entities read back
Unescape(text) ==
    Replace(Replace(Replace(text, GtEntity, <<GREATER>>), LtEntity, <<LESS>>),
            AmpEntity, <<AMP>>)

RECURSIVE ExpandTabs(_)
\* a text with each tab written as four spaces
ExpandTabs(text) ==
    IF text = <<>> THEN <<>>
    ELSE (IF text[1] = TAB THEN <<32, 32, 32, 32>> ELSE <<text[1]>>) \o ExpandTabs(Tail(text))

IsBody(f) == f.kind = "Preformatted"

\* the content bodies of a story, in order
Bodies(st) == SelectSeq(st, IsBody)

\* a story is complete when the file loop has ended
StoryComplete == (pc = "header" /\ idx > Len(files)) \/ pc = "done"

\* the places of a complete story of n files
TocAt(n, i) == 7 + i

HeaderAt(n, i) == 8 + n + 3 * (i - 1) + 1

\* the lowercase form of a selected path, as the table of contents names it
LowerRel(path) == Lower(RelStr(path))

\* A precedes B in the table of contents and in the file sections of a story
PrecedesInDoc(st, n, A, B) ==
    /\ \E j, k \in 1..n :
          /\ j < k
          /\ Unescape(st[TocAt(n, j)].text) = IntStr(j) \o TocSeparator \o RelStr(A)
          /\ Unescape(st[TocAt(n, k)].text) = IntStr(k) \o TocSeparator \o RelStr(B)
    /\ \E j, k \in 1..n :
          /\ j < k
          /\ Unescape(st[HeaderAt(n, j)].text) = HeaderPrefix \o RelStr(A)
          /\ Unescape(st[HeaderAt(n, k)].text) = HeaderPrefix \o RelStr(B)

---------------------------------------------------------------------------
(* C1: the list get_all_files returns holds exactly the regular files under *)
(* the root with no part in the excluded directory names, whose name is in  *)
(* the exact-name list or whose lower-cased extension is in the extension   *)
(* list, and which are not repo_to_pdf.py, not a .pdf and not               *)
(* package-lock.json; each once.                                            *)

Selectable(path) ==
    /\ \A k \in 1..Len(path) : path[k] \notin EXCLUDE_DIRS
    /\ Name(path) \in INCLUDE_FILES \/ Lower(Suffix(path)) \in INCLUDE_EXTENSIONS
    /\ Name(path) # SelfName
    /\ Suffix(path) # PdfSuffix
    /\ Name(path) # PackageLockName

C1_SelectionExact ==
    pc \in {"front", "header", "open", "read", "close", "append", "done"} =>
        /\ Range(files) = { REPO_ROOT \o fs[k].rel :
                              k \in { j \in 1..Len(fs) : /\ fs[j].kind = "file"
                                                         /\ Selectable(REPO_ROOT \o fs[j].rel) } }
        /\ \A j, k \in 1..Len(files) : j # k => files[j] # files[k]

C1_Witness ==
    /\ pc = "front"
    /\ Len(fs) = 2
    /\ files = << REPO_ROOT \o P(<<"A.PY">>) >>
    /\ \E k \in 1..2 : fs[k].rel = P(<<"node_modules", "x.js">>)

(* C2: the document built has the title block with the file count N, a     *)
(* table of contents of N entries "<i>. <relative path>" numbered 1..N and  *)
(* N file sections, the i-th entry and the i-th section naming the same     *)
(* path.                                                                    *)

C2_DocumentShape ==
    StoryComplete =>
        LET n == Len(files)
        IN  /\ Len(story) = 8 + n + 3 * n
            /\ story[1].kind = "Spacer"
            /\ story[2].style = "CustomTitle"
            /\ story[4] = Paragraph(TotalFilesText \o IntStr(n), "CustomSubtitle")
            /\ story[5].kind = "PageBreak"
            /\ story[6] = Paragraph(TocHeading, "Heading1")
            /\ story[8 + n].kind = "PageBreak"
            /\ Cardinality({ k \in 1..Len(story) : story[k].style = "TOC" }) = n
            /\ Cardinality({ k \in 1..Len(story) : story[k].style = "FileHeader" }) = n
            /\ Len(Bodies(story)) = n
            /\ \A i \in 1..n :
                  /\ story[TocAt(n, i)].style = "TOC"
                  /\ Unescape(story[TocAt(n, i)].text)
                        = IntStr(i) \o TocSeparator \o RelStr(files[i])
                  /\ story[HeaderAt(n, i)].style = "FileHeader"
                  /\ Unescape(story[HeaderAt(n, i)].text) = HeaderPrefix \o RelStr(files[i])
                  /\ story[HeaderAt(n, i) + 1].kind = "Preformatted"
                  /\ story[HeaderAt(n, i) + 2].kind = "PageBreak"

C2_Witness ==
    /\ pc = "done"
    /\ Len(files) = 2
    /\ Len(story) = 16

(* C3 as stated: for any two distinct selected paths A and B, A precedes B *)
(* in the table of contents and in the sections if and only if             *)
(* lowercase(A) < lowercase(B), also for paths differing only in case.     *)

C3_TotalOrder ==
    pc = "done" =>
        \A j, k \in 1..Len(files) :
            j # k => ( PrecedesInDoc(story, Len(files), files[j], files[k])
                       <=> StrLess(LowerRel(files[j]), LowerRel(files[k])) )

(* C3 as amended: for any two selected paths whose lowercase forms differ, *)
(* A precedes B in the table of contents and in the sections if and only   *)
(* if lowercase(A) < lowercase(B); two selected paths with the same        *)
(* lowercase form stand, in both places, in the order in which the         *)
(* traversal of the root listed them.                                      *)

C3_OrderUpToCase ==
    pc = "done" =>
        \A j, k \in 1..Len(files) :
            j # k =>
                IF LowerRel(files[j]) # LowerRel(files[k])
                THEN PrecedesInDoc(story, Len(files), files[j], files[k])
                     <=> StrLess(LowerRel(files[j]), LowerRel(files[k]))
                ELSE PrecedesInDoc(story, Len(files), files[j], files[k])
                     <=> ListedAt(files[j]) < ListedAt(files[k])

C3_Witness ==
    /\ pc = "done"
    /\ Len(files) = 2
    /\ files[1] # files[2]
    /\ LowerRel(files[1]) = LowerRel(files[2])
    /\ PrecedesInDoc(story, 2, files[1], files[2])

(* C4: every table-of-contents entry, file header and content body in the  *)
(* story has no raw '<' or '>', every '&' in it begins &amp;, &lt; or      *)
(* &gt;, and a content body has no tab left: each tab of the text read is  *)
(* four characters in it.                                                  *)

MarkupSafe(text) ==
    /\ \A k \in 1..Len(text) : text[k] # LESS /\ text[k] # GREATER
    /\ \A k \in 1..Len(text) :
          text[k] = AMP => \/ MatchAt(text, AmpEntity, k)
                           \/ MatchAt(text, LtEntity, k)
                           \/ MatchAt(text, GtEntity, k)

C4_EverythingEscaped ==
    /\ \A k \in 1..Len(story) :
          story[k].style \in {"TOC", "FileHeader", "Code"} => MarkupSafe(story[k].text)
    /\ \A k \in 1..Len(Bodies(story)) :
          LET body == Bodies(story)[k].text
              text == reads[k].text
          IN  /\ Count(body, TAB) = 0
              /\ Len(body) = Len(text) + 4 * Count(text, AMP) + 3 * Count(text, LESS)
                             + 3 * Count(text, GREATER) + 3 * Count(text, TAB)

C4_Witness ==
    /\ pc = "done"
    /\ \E k \in 1..Len(files) : Count(RelStr(files[k]), LESS) > 0
    /\ \E k \in 1..Len(files) : Count(RelStr(files[k]), AMP) > 0
    /\ \E k \in 1..Len(reads) : Count(reads[k].text, TAB) > 0 /\ Count(reads[k].text, AMP) > 0

(* C5: reading the three entities back in escape_xml(s) gives s again, for *)
(* every text s the Reader returns (also one that holds "&lt;" already); a *)
(* text with none of '&', '<', '>' is left as it is, and its rendered body *)
(* is the text with its tabs expanded.                                     *)

C5_EscapeReversible ==
    /\ \A k \in 1..Len(reads) : Unescape(escape_xml(reads[k].text)) = reads[k].text
    /\ \A k \in 1..Len(Bodies(story)) :
          LET body == Bodies(story)[k].text
              text == reads[k].text
          IN  /\ Unescape(body) = ExpandTabs(text)
              /\ Range(text) \cap {AMP, LESS, GREATER} = {} =>
                    escape_xml(text) = text /\ body = ExpandTabs(text)

C5_Witness ==
    /\ pc = "done"
    /\ Len(reads) = 1
    /\ reads[1].text = LtEntity
    /\ Bodies(story)[1].text = Str("&amp;lt;")

(* C6: for a file that can be opened, whatever its bytes, read_file_safely *)
(* tries the encodings in their declared order, returns the text of the    *)
(* first that decodes, never lets a decoding error reach main, and, should *)
(* every declared encoding fail, returns the lossy decoding, so that the   *)
(* file's section is still produced.                                       *)

\* the encoding tried k-th: the declared ones in order, then the lossy read
TriedAt(k) == IF k <= Len(encodings) THEN encodings[k] ELSE "replace"

C6_ReaderAlwaysReturns ==
    /\ failure \notin {"UnicodeDecodeError", "UnicodeError"}
    /\ \A k \in 1..Len(attempts) : attempts[k] = TriedAt(k)
    /\ \A k \in 1..Len(reads) :
          LET r == reads[k]
              data == DataOf(r.path)
              n == Len(r.tried)
              allFail == \A e \in Range(encodings) : ~Decode(e, data).ok
          IN  /\ n >= 1
              /\ \A j \in 1..n : r.tried[j] = TriedAt(j)
              /\ \A j \in 1..(n - 1) : ~Decode(r.tried[j], data).ok
              /\ n <= Len(encodings) =>
                    Decode(r.tried[n], data).ok /\ r.text = TextRead(r.tried[n], data).text
              /\ allFail => r.text = LossyRead(data).text
    /\ pc = "done" => Len(Bodies(story)) = Len(files) /\ Len(reads) = Len(files)

C6_Witness ==
    /\ pc = "done"
    /\ Len(reads) = 1
    /\ reads[1].tried = <<"utf-8", "latin-1">>
    /\ DataOf(reads[1].path) = <<65, 195>>
    /\ Len(Bodies(story)) = 1

(* C7: a run writes the output document at most once, and only when every  *)
(* selected file has been read, in canonical order; when a selected file   *)
(* cannot be opened the run ends at that file: no later file is read, the  *)
(* file is not skipped, and the document is not written.                   *)

C7_WriteOnceAfterAllReads ==
    /\ written <= 1
    /\ Len(reads) <= Len(files)
    /\ \A k \in 1..Len(reads) : reads[k].path = files[k]
    /\ written = 1 => pc = "done" /\ Len(reads) = Len(files) /\ Len(docs) = run
    /\ pc # "done" => Len(docs) = run - 1
    /\ pc = "aborted" =>
          /\ written = 0
          /\ failure = "FileNotFoundError"
          /\ idx \in 1..Len(files)
          /\ ~IsFile(files[idx], fs)
          /\ Len(reads) = idx - 1
          /\ Len(Bodies(story)) = idx - 1
          /\ ~ENABLED NextTool

C7_Witness ==
    /\ pc = "aborted"
    /\ Len(files) = 2
    /\ idx = 1
    /\ IsFile(files[2], fs)

(* C8: a second run on a tree whose source files did not change selects    *)
(* the same file list as the first and so builds the same table of         *)
(* contents and the same file sections in the same order; the output       *)
(* document written by a run is never selected.                            *)

C8_Idempotent ==
    /\ OutputPath \notin Range(files)
    /\ \A r \in 2..Len(docs) :
          /\ docs[r].files = docs[r - 1].files
          /\ docs[r].story = docs[r - 1].story

C8_Witness ==
    /\ pc = "done"
    /\ run = 2
    /\ Len(docs) = 2
    /\ Len(docs[2].files) = 2
    /\ LowerRel(docs[2].files[1]) = LowerRel(docs[2].files[2])
    /\ IsFile(OutputPath, fs)

(* C9: at most one input file handle is open at any time: a handle is      *)
(* closed when its decoding attempt ends, with or without an error, before *)
(* the file is opened again and before the next file is opened; none is    *)
(* open once read_file_safely has returned or raised.                      *)

C9_OneHandle ==
    /\ Len(handles) <= 1
    /\ pc \notin {"read", "close"} => handles = <<>>
    /\ pc \in {"read", "close"} => Len(handles) = 1 /\ handles[1].path = files[idx]

C9_Witness ==
    /\ pc = "open"
    /\ idx = 2
    /\ encIdx = 2
    /\ attempts = <<"utf-8">>
    /\ handles = <<>>

(* C10: read_file_safely returns the utf-8 reading of a file whose bytes   *)
(* are valid utf-8 and the latin-1 reading of any other; cp1252 is never   *)
(* tried and the lossy read never reached, so a replacement marker in the  *)
(* text returned is one the file itself holds.                             *)

C10_Utf8OrLatin1 ==
    /\ encIdx <= 2
    /\ Range(attempts) \subseteq {"utf-8", "latin-1"}
    /\ \A k \in 1..Len(reads) :
          LET r == reads[k]
              data == DataOf(r.path)
          IN  /\ r.text = IF Decode("utf-8", data).ok
                          THEN TextRead("utf-8", data).text
                          ELSE TextRead("latin-1", data).text
              /\ r.tried = IF Decode("utf-8", data).ok
                           THEN <<"utf-8">> ELSE <<"utf-8", "latin-1">>
              /\ REPLACEMENT \in Range(r.text) => r.tried = <<"utf-8">>

C10_Witness ==
    /\ pc = "append"
    /\ DataOf(files[1]) = <<129>>
    /\ reads[1].tried = <<"utf-8", "latin-1">>
    /\ content = <<129>>

===========================================================================
